---- MODULE Spec2Model ----
(***************************************************************************)
(* Model of the sign-language recognition session (SignLanguageProvider)  *)
(* and its SignLanguageDetector.                                           *)
(*                                                                         *)
(* Two revisions of the source are modelled side by side; the variable    *)
(* rev selects one of them in the initial state and never changes:        *)
(*   rev = 1  provider of src/unnamed/part_000 with the detector of       *)
(*            src/src/utils/SignLanguageDetector.ts (synchronous         *)
(*            landmark extraction, one await at prediction.data());       *)
(*   rev = 2  provider of part_000 as changed by the diff at the head of  *)
(*            src/unnamed/part_001, with the MediaPipe detector of        *)
(*            part_001 (await hands.send, then await prediction.data()).  *)
(*                                                                         *)
(* Units: confidences are hundredths (0.75 is 75), times are              *)
(* milliseconds. React state setters are modelled as taking effect at     *)
(* once; everything a callback does between two awaits is one step,       *)
(* because the event loop runs it (and the promise continuations it       *)
(* resolves) without letting another callback in.                          *)
(***************************************************************************)
EXTENDS Integers, Sequences, FiniteSets, TLC

VARIABLES
    rev,                   \* source revision modelled (1 or 2)
    now,                   \* Date.now()
    deadline,              \* the clock stops here (bound of the run)
    \* ---- SignLanguageProvider
    isDetecting,
    currentPrediction,
    confidence,
    predictionHistory,
    modelLoaded,
    modelLoadingProgress,
    detectorRef,           \* detectorRef.current !== null
    processingRef,
    initState,             \* position of initializeDetector
    progressInterval,      \* the setInterval of initializeDetector is armed
    mounted,               \* the provider is mounted (its cleanup has not run)
    \* ---- SignLanguageDetector
    model,                 \* this.model !== null (and hands, isMediaPipeReady)
    isProcessing,
    landmarkSequence,
    lastDetectionTime,
    disposed,              \* number of dispose() calls made on the Detector
    \* ---- calls in flight and bookkeeping
    pc,                    \* position of each processFrame call slot
    pushCount,             \* serial number of the last landmark frame appended
    ev                     \* what the last step did (observation only)

sessionVars == <<isDetecting, currentPrediction, confidence, predictionHistory,
                 modelLoaded, modelLoadingProgress, detectorRef, processingRef,
                 initState, progressInterval>>
detectorVars == <<model, isProcessing, landmarkSequence, lastDetectionTime>>
lifeVars == <<mounted, disposed>>
vars == <<rev, now, deadline, sessionVars, detectorVars, lifeVars, pc,
          pushCount, ev>>

----------------------------------------------------------------------------
(* Bounds of the model *)

\* the clock starts here (Date.now() is far above every interval of the code)
StartTime == 10000
\* the clock advances in steps of TickMs
TickMs == 100
\* the clock advances MaxTicks times at most in a run from construction
MaxTicks == 12
\* and WarmTicks times at most in a run from a warmed-up session
WarmTicks == 4
\* and LiveTicks times at most in a run checked for progress
LiveTicks == 3
\* processFrame calls that can be suspended at an await at the same time
MaxCalls == 2
\* dispose() calls made on one Detector in a run that repeats them
MaxDisposals == 2

Revisions == {1, 2}
Calls == 1..MaxCalls

----------------------------------------------------------------------------
(* Constants of the code, per revision *)

\* SignLanguageDetector.maxSequenceLength
maxSequenceLength == 30
\* rows of zeros are written 0; a landmark frame is written by its serial
\* number (1, 2, ...), so that any two frames differ
ZeroRow == 0

\* throttle of detectGesture
ThrottleMs == IF rev = 1 THEN 300 ELSE 200
\* mutant: the classifier is run one frame earlier
MinFill_OneLess == IF rev = 1 THEN 9 ELSE 4

\* frames needed before the classifier is run
MinFill == IF rev = 1 THEN 10 ELSE 5
\* detectGesture returns a result only above this confidence
AcceptThreshold == IF rev = 1 THEN 60 ELSE 50
\* processFrame displays a result only above this confidence
DisplayThreshold == IF rev = 1 THEN 50 ELSE 60
\* processFrame offers a result to the history only above this confidence
HistoryThreshold == IF rev = 1 THEN 70 ELSE 75
\* same-label predictions closer than this are duplicates
DedupGapMs == IF rev = 1 THEN 2000 ELSE 1500
\* the history keeps this many predictions
MaxHistory == IF rev = 1 THEN 15 ELSE 20
\* confidence lost per frame without a displayed result
DecayStep == IF rev = 1 THEN 5 ELSE 8

\* mutant: the label is cleared five hundredths earlier
ClearThreshold_Higher == IF rev = 1 THEN 35 ELSE 45

\* the label is cleared below this confidence
ClearThreshold == IF rev = 1 THEN 30 ELSE 40

\* SignLanguageDetector.labelMap
labelMap == [i \in {0, 1} |-> IF i = 0 THEN "hello" ELSE "thankyou"]

NoLabel == "null"
Null == [gesture |-> "null", confidence |-> 0]

----------------------------------------------------------------------------
(* Inputs *)

\* what a frame does to the landmark extractor
FrameInputs == {"hand", "nohand", "throw"}

\* classifier outputs: probabilities of the two labels, in hundredths. The
\* winning probability takes the value of each threshold of the revision
\* (accept, display, history) and one value above them all
TopScores == {AcceptThreshold, DisplayThreshold, HistoryThreshold,
              HistoryThreshold + 15}
Scores == {[i \in {0, 1} |-> IF i = 0 THEN p ELSE 100 - p] : p \in TopScores}
          \cup {[i \in {0, 1} |-> IF i = 1 THEN p ELSE 100 - p] : p \in TopScores}

\* Math.random() * 15 of the loading timer, in whole percent
ProgressSteps == {0, 7, 14}

----------------------------------------------------------------------------
(* Pure functions of the code *)

Max(a, b) == IF a >= b THEN a ELSE b

\* predictionData.indexOf(Math.max(...predictionData))
IndexOfMax(s) ==
    CHOOSE i \in DOMAIN s :
        /\ \A j \in DOMAIN s : s[j] <= s[i]
        /\ \A j \in DOMAIN s : j < i => s[j] # s[i]

\* the last n elements of s: s.slice(-n)
SliceLast(s, n) ==
    IF Len(s) <= n THEN s ELSE SubSeq(s, Len(s) - n + 1, Len(s))

\* mutant: pop() where the code calls shift(): the newest frame is dropped
PushLandmarks_DropsNewest(seq, frame) ==
    LET pushed == Append(seq, frame)
    IN  IF Len(pushed) > maxSequenceLength
        THEN SubSeq(pushed, 1, maxSequenceLength)
        ELSE pushed

\* landmarkSequence.push(landmarks); if (length > maxSequenceLength) shift()
PushLandmarks(seq, frame) ==
    LET pushed == Append(seq, frame)
    IN  IF Len(pushed) > maxSequenceLength THEN Tail(pushed) ELSE pushed

\* mutant: the rows of zeros are pushed after the frames
prepareInputSequence_PadsAtEnd(seq) ==
    LET recentFrames == SliceLast(seq, maxSequenceLength)
        paddingNeeded == maxSequenceLength - Len(recentFrames)
    IN  recentFrames \o [i \in 1..paddingNeeded |-> ZeroRow]

\* SignLanguageDetector.prepareInputSequence
prepareInputSequence(seq) ==
    LET recentFrames == SliceLast(seq, maxSequenceLength)
        paddingNeeded == maxSequenceLength - Len(recentFrames)
    IN  [i \in 1..paddingNeeded |-> ZeroRow] \o recentFrames

\* what detectGesture returns for the classifier's scores
ResultOf(scores) ==
    LET maxIndex == IndexOfMax(scores)
        conf == scores[maxIndex]
    IN  IF conf > AcceptThreshold
        THEN [gesture |-> labelMap[maxIndex], confidence |-> conf]
        ELSE Null

\* mutant: every offered prediction is appended, whatever the last entry is
AdmitToHistory_NoDedup(prev, newPrediction) ==
    SliceLast(Append(prev, newPrediction), MaxHistory)

\* mutant: <= where the code compares the gap with <
AdmitToHistory_GapInclusive(prev, newPrediction) ==
    IF /\ Len(prev) > 0
       /\ prev[Len(prev)].gesture = newPrediction.gesture
       /\ newPrediction.timestamp - prev[Len(prev)].timestamp <= DedupGapMs
    THEN prev
    ELSE SliceLast(Append(prev, newPrediction), MaxHistory)

\* mutant: slice(0, n) where the code calls slice(-n): the oldest are kept
AdmitToHistory_KeepsOldest(prev, newPrediction) ==
    IF /\ Len(prev) > 0
       /\ prev[Len(prev)].gesture = newPrediction.gesture
       /\ newPrediction.timestamp - prev[Len(prev)].timestamp < DedupGapMs
    THEN prev
    ELSE LET updated == Append(prev, newPrediction)
         IN  IF Len(updated) <= MaxHistory
             THEN updated
             ELSE SubSeq(updated, 1, MaxHistory)

\* the updater processFrame hands to setPredictionHistory
AdmitToHistory(prev, newPrediction) ==
    IF /\ Len(prev) > 0
       /\ prev[Len(prev)].gesture = newPrediction.gesture
       /\ newPrediction.timestamp - prev[Len(prev)].timestamp < DedupGapMs
    THEN prev
    ELSE SliceLast(Append(prev, newPrediction), MaxHistory)

\* mutant: the Math.max(0, ...) is missing
DecayedConfidence_NoFloor(prev) == prev - DecayStep

\* the updater processFrame hands to setConfidence
DecayedConfidence(prev) == Max(0, prev - DecayStep)

\* result && result.confidence > display threshold
IsDisplayed(result) == result # Null /\ result.confidence > DisplayThreshold

\* result.confidence > history threshold
IsOffered(result) == result.confidence > HistoryThreshold

----------------------------------------------------------------------------
(* Observation of a step *)

NoInput == <<>>

\* op: the callback that ran; gate: processFrame passed its guard;
\* det: how detectGesture was entered ("none" when it was not called);
\* extractor, classifier: the step invoked them; input: the tensor rows handed
\* to the classifier; delivered, result: what processFrame's continuation got;
\* failed: the catch block of detectGesture ran
Ev(op, gate, det, extractor, input, delivered, result) ==
    [op |-> op, gate |-> gate, det |-> det, extractor |-> extractor,
     classifier |-> (input # NoInput), input |-> input,
     delivered |-> delivered, result |-> result, failed |-> FALSE]

\* the same step, in which the extractor or the classifier failed
Failed(e) == [e EXCEPT !.failed = TRUE]

Quiet(op) == Ev(op, FALSE, "none", FALSE, NoInput, FALSE, Null)

----------------------------------------------------------------------------
(* Initial state: the provider has mounted and initializeDetector has run up *)
(* to its await of newDetector.initialize()                                 *)

Init ==
    /\ rev \in Revisions
    /\ now = StartTime
    /\ deadline = StartTime + MaxTicks * TickMs
    /\ isDetecting = FALSE
    /\ currentPrediction = NoLabel
    /\ confidence = 0
    /\ predictionHistory = <<>>
    /\ modelLoaded = FALSE
    /\ modelLoadingProgress = IF rev = 1 THEN 0 ELSE 50
    /\ detectorRef = FALSE
    /\ processingRef = FALSE
    /\ initState = "loading"
    /\ progressInterval = (rev = 1)
    /\ mounted = TRUE
    /\ disposed = 0
    /\ model = FALSE
    /\ isProcessing = FALSE
    /\ landmarkSequence = <<>>
    /\ lastDetectionTime = 0
    /\ pc = [c \in Calls |-> "idle"]
    /\ pushCount = 0
    /\ ev = Quiet("mount")

----------------------------------------------------------------------------
(* The clock *)

Tick ==
    /\ now < deadline
    /\ now' = now + TickMs
    /\ ev' = Quiet("tick")
    /\ UNCHANGED <<rev, deadline, sessionVars, detectorVars, lifeVars, pc,
                   pushCount>>

----------------------------------------------------------------------------
(* initializeDetector *)

\* newDetector.initialize() resolved; the state setters of an unmounted
\* provider do nothing, the assignment to the ref and clearInterval still run
InitializeDone ==
    /\ initState = "loading"
    /\ initState' = "done"
    /\ model' = TRUE
    /\ detectorRef' = TRUE
    /\ modelLoaded' = IF mounted THEN TRUE ELSE modelLoaded
    /\ modelLoadingProgress' = IF mounted THEN 100 ELSE modelLoadingProgress
    /\ progressInterval' = FALSE
    /\ ev' = Quiet("initializeDone")
    /\ UNCHANGED <<rev, now, deadline, lifeVars, isDetecting, currentPrediction, confidence,
                   predictionHistory, processingRef, isProcessing,
                   landmarkSequence, lastDetectionTime, pc, pushCount>>

\* mutant: the catch block installs the Detector that failed to initialize
InitializeFail_InstallsDetector ==
    /\ initState = "loading"
    /\ initState' = "failed"
    /\ detectorRef' = TRUE
    /\ modelLoadingProgress' = IF mounted THEN 0 ELSE modelLoadingProgress
    /\ ev' = Quiet("initializeFail")
    /\ UNCHANGED <<rev, now, deadline, lifeVars, isDetecting, currentPrediction, confidence,
                   predictionHistory, modelLoaded, processingRef,
                   progressInterval, detectorVars, pc, pushCount>>

\* newDetector.initialize() rejected: the catch block
InitializeFail ==
    /\ initState = "loading"
    /\ initState' = "failed"
    /\ modelLoadingProgress' = IF mounted THEN 0 ELSE modelLoadingProgress
    /\ ev' = Quiet("initializeFail")
    /\ UNCHANGED <<rev, now, deadline, lifeVars, isDetecting, currentPrediction, confidence,
                   predictionHistory, modelLoaded, detectorRef, processingRef,
                   progressInterval, detectorVars, pc, pushCount>>

\* one firing of the loading timer (the first revision only); after the
\* unmount its updater is dropped and a firing changes nothing
ProgressTick(r) ==
    /\ progressInterval
    /\ mounted
    /\ IF modelLoadingProgress >= 90
       THEN /\ progressInterval' = FALSE
            /\ modelLoadingProgress' = 90
       ELSE /\ modelLoadingProgress' = modelLoadingProgress + r
            /\ UNCHANGED progressInterval
    /\ ev' = Quiet("progress")
    /\ UNCHANGED <<rev, now, deadline, lifeVars, isDetecting, currentPrediction, confidence,
                   predictionHistory, modelLoaded, detectorRef, processingRef,
                   initState, detectorVars, pc, pushCount>>

----------------------------------------------------------------------------
(* startDetection, stopDetection, clearHistory *)

\* mutant: start() does not look at the model-ready flag and the ref
StartDetection_NoGuard ==
    /\ mounted
    /\ isDetecting' = TRUE
    /\ ev' = Quiet("start")
    /\ UNCHANGED <<rev, now, deadline, lifeVars, currentPrediction, confidence, predictionHistory,
                   modelLoaded, modelLoadingProgress, detectorRef,
                   processingRef, initState, progressInterval, detectorVars,
                   pc, pushCount>>

StartDetection ==
    /\ mounted
    /\ IF modelLoaded /\ detectorRef
       THEN isDetecting' = TRUE
       ELSE UNCHANGED isDetecting
    /\ ev' = Quiet("start")
    /\ UNCHANGED <<rev, now, deadline, lifeVars, currentPrediction, confidence, predictionHistory,
                   modelLoaded, modelLoadingProgress, detectorRef,
                   processingRef, initState, progressInterval, detectorVars,
                   pc, pushCount>>

\* mutant: stop also empties the history
StopDetection_ClearsHistory ==
    /\ mounted
    /\ isDetecting' = FALSE
    /\ currentPrediction' = NoLabel
    /\ confidence' = 0
    /\ processingRef' = FALSE
    /\ predictionHistory' = <<>>
    /\ ev' = Quiet("stop")
    /\ UNCHANGED <<rev, now, deadline, lifeVars, modelLoaded,
                   modelLoadingProgress, detectorRef, initState,
                   progressInterval, detectorVars, pc, pushCount>>

StopDetection ==
    /\ mounted
    /\ isDetecting' = FALSE
    /\ currentPrediction' = NoLabel
    /\ confidence' = 0
    /\ processingRef' = FALSE
    /\ ev' = Quiet("stop")
    /\ UNCHANGED <<rev, now, deadline, lifeVars, predictionHistory, modelLoaded,
                   modelLoadingProgress, detectorRef, initState,
                   progressInterval, detectorVars, pc, pushCount>>

\* mutant: clearing the history also resets the displayed prediction
ClearHistory_ResetsPrediction ==
    /\ mounted
    /\ predictionHistory' = <<>>
    /\ currentPrediction' = NoLabel
    /\ confidence' = 0
    /\ ev' = Quiet("clearHistory")
    /\ UNCHANGED <<rev, now, deadline, lifeVars, isDetecting,
                   modelLoaded, modelLoadingProgress, detectorRef,
                   processingRef, initState, progressInterval, detectorVars,
                   pc, pushCount>>

ClearHistory ==
    /\ mounted
    /\ predictionHistory' = <<>>
    /\ ev' = Quiet("clearHistory")
    /\ UNCHANGED <<rev, now, deadline, lifeVars, isDetecting, currentPrediction, confidence,
                   modelLoaded, modelLoadingProgress, detectorRef,
                   processingRef, initState, progressInterval, detectorVars,
                   pc, pushCount>>

----------------------------------------------------------------------------
(* processFrame and detectGesture *)

\* mutant: the guard does not look at isDetecting
SessionGate_NoActiveCheck ==
    /\ detectorRef
    /\ ~processingRef
    /\ (rev = 2 => modelLoaded)

\* the guard at the head of processFrame (the second revision adds modelLoaded)
SessionGate ==
    /\ detectorRef
    /\ isDetecting
    /\ ~processingRef
    /\ (rev = 2 => modelLoaded)

\* mutant: the guards do not look at the time of the last call
DetectorEntry_NoThrottle ==
    IF isProcessing THEN "busy"
    ELSE IF ~model THEN "notReady"
    ELSE "ran"

\* mutant: the guard does not look at isProcessing
DetectorEntry_NoBusyCheck ==
    IF ~model THEN "notReady"
    ELSE IF now - lastDetectionTime < ThrottleMs THEN "throttled"
    ELSE "ran"

\* the guards at the head of detectGesture
DetectorEntry ==
    IF isProcessing THEN "busy"
    ELSE IF ~model THEN "notReady"
    ELSE IF now - lastDetectionTime < ThrottleMs THEN "throttled"
    ELSE "ran"

\* the slot a new call takes
FreeCall == CHOOSE c \in Calls : pc[c] = "idle" /\ \A d \in Calls : pc[d] = "idle" => c <= d

\* calls suspended inside detectGesture
InFlight == {c \in Calls : pc[c] # "idle"}

\* processFrame after its await: the result branch or the decay branch, then
\* the finally block (the state setters of an unmounted provider do nothing)
Deliver(result) ==
    /\ IF ~mounted
       THEN UNCHANGED <<currentPrediction, confidence, predictionHistory>>
       ELSE IF IsDisplayed(result)
       THEN /\ currentPrediction' = result.gesture
            /\ confidence' = result.confidence
            /\ predictionHistory' =
                 IF IsOffered(result)
                 THEN AdmitToHistory(predictionHistory,
                          [gesture |-> result.gesture,
                           confidence |-> result.confidence,
                           timestamp |-> now])
                 ELSE predictionHistory
       ELSE /\ confidence' = DecayedConfidence(confidence)
            /\ currentPrediction' =
                 IF DecayedConfidence(confidence) < ClearThreshold
                 THEN NoLabel
                 ELSE currentPrediction
            /\ UNCHANGED predictionHistory
    /\ processingRef' = FALSE
    /\ UNCHANGED <<isDetecting, modelLoaded, modelLoadingProgress, detectorRef,
                   initState, progressInterval>>

\* a call stays suspended: nothing of the session changes
NoDelivery ==
    UNCHANGED <<isDetecting, currentPrediction, confidence, predictionHistory,
                modelLoaded, modelLoadingProgress, detectorRef, initState,
                progressInterval>>

\* detectGesture of the first revision from the throttle stamp to its await
\* (or its return): extraction is synchronous, and an extractor that throws
\* lands in the catch block
DetectRunSync(x) ==
    LET found == (x = "hand")
        seq2 == IF found
                THEN PushLandmarks(landmarkSequence, pushCount + 1)
                ELSE landmarkSequence
    IN  /\ lastDetectionTime' = now
        /\ landmarkSequence' = seq2
        /\ pushCount' = IF found THEN pushCount + 1 ELSE pushCount
        /\ UNCHANGED model
        /\ IF found /\ Len(seq2) >= MinFill
           THEN /\ isProcessing' = TRUE
                /\ pc' = [pc EXCEPT ![FreeCall] = "classify"]
                /\ processingRef' = TRUE
                /\ NoDelivery
                /\ ev' = Ev("processFrame", TRUE, "ran", TRUE,
                            prepareInputSequence(seq2), FALSE, Null)
           ELSE /\ isProcessing' = FALSE
                /\ UNCHANGED pc
                /\ Deliver(Null)
                /\ ev' = IF x = "throw"
                         THEN Failed(Ev("processFrame", TRUE, "ran", TRUE,
                                        NoInput, TRUE, Null))
                         ELSE Ev("processFrame", TRUE, "ran", TRUE, NoInput,
                                 TRUE, Null)

\* detectGesture of the second revision from the throttle stamp to
\* await hands.send (the canvas calls before it may throw)
DetectRunSend(x) ==
    /\ lastDetectionTime' = now
    /\ UNCHANGED <<model, landmarkSequence, pushCount>>
    /\ IF x = "throw"
       THEN /\ isProcessing' = FALSE
            /\ UNCHANGED pc
            /\ Deliver(Null)
            /\ ev' = Failed(Ev("processFrame", TRUE, "ran", FALSE, NoInput,
                               TRUE, Null))
       ELSE /\ isProcessing' = TRUE
            /\ pc' = [pc EXCEPT ![FreeCall] = "extract"]
            /\ processingRef' = TRUE
            /\ NoDelivery
            /\ ev' = Ev("processFrame", TRUE, "ran", TRUE, NoInput, FALSE, Null)

\* mutant: a call the Detector skipped leaves the session as it is
ProcessFrame_SkipIsSilent(x) ==
    /\ mounted
    /\ \E c \in Calls : pc[c] = "idle"
    /\ UNCHANGED <<rev, now, deadline, lifeVars>>
    /\ IF ~SessionGate
       THEN /\ ev' = Quiet("processFrame")
            /\ UNCHANGED <<sessionVars, detectorVars, pc, pushCount>>
       ELSE IF DetectorEntry # "ran"
       THEN /\ ev' = Ev("processFrame", TRUE, DetectorEntry, FALSE, NoInput,
                        TRUE, Null)
            /\ UNCHANGED <<sessionVars, detectorVars, pc, pushCount>>
       ELSE IF rev = 1
       THEN DetectRunSync(x)
       ELSE DetectRunSend(x)

\* a frame is submitted: processFrame(imageData)
ProcessFrame(x) ==
    /\ mounted
    /\ \E c \in Calls : pc[c] = "idle"
    /\ UNCHANGED <<rev, now, deadline, lifeVars>>
    /\ IF ~SessionGate
       THEN /\ ev' = Quiet("processFrame")
            /\ UNCHANGED <<sessionVars, detectorVars, pc, pushCount>>
       ELSE IF DetectorEntry # "ran"
       THEN /\ Deliver(Null)
            /\ ev' = Ev("processFrame", TRUE, DetectorEntry, FALSE, NoInput,
                        TRUE, Null)
            /\ UNCHANGED <<detectorVars, pc, pushCount>>
       ELSE IF rev = 1
       THEN DetectRunSync(x)
       ELSE DetectRunSend(x)

\* hands.send resolved (onHandsResults has run) or rejected: detectGesture of
\* the second revision goes on to its next await or returns; model.predict on
\* a disposed Detector throws into the catch block
ExtractReturn(c, x) ==
    LET found == (x = "hand")
        seq2 == IF found
                THEN PushLandmarks(landmarkSequence, pushCount + 1)
                ELSE landmarkSequence
    IN  /\ pc[c] = "extract"
        /\ landmarkSequence' = seq2
        /\ pushCount' = IF found THEN pushCount + 1 ELSE pushCount
        /\ UNCHANGED <<rev, now, deadline, lifeVars, model, lastDetectionTime>>
        /\ IF x # "throw" /\ Len(seq2) >= MinFill /\ model
           THEN /\ pc' = [pc EXCEPT ![c] = "classify"]
                /\ UNCHANGED <<isProcessing, processingRef>>
                /\ NoDelivery
                /\ ev' = Ev("extractReturn", FALSE, "none", FALSE,
                            prepareInputSequence(seq2), FALSE, Null)
           ELSE /\ pc' = [pc EXCEPT ![c] = "idle"]
                /\ isProcessing' = FALSE
                /\ Deliver(Null)
                /\ ev' = IF x = "throw" \/ Len(seq2) >= MinFill
                         THEN Failed(Ev("extractReturn", FALSE, "none", FALSE,
                                        NoInput, TRUE, Null))
                         ELSE Ev("extractReturn", FALSE, "none", FALSE,
                                 NoInput, TRUE, Null)

\* mutant: detectGesture returns its result without clearing isProcessing
ClassifyReturn_KeepsBusy(c, scores) ==
    /\ pc[c] = "classify"
    /\ pc' = [pc EXCEPT ![c] = "idle"]
    /\ UNCHANGED isProcessing
    /\ Deliver(ResultOf(scores))
    /\ ev' = Ev("classifyReturn", FALSE, "none", FALSE, NoInput, TRUE,
                ResultOf(scores))
    /\ UNCHANGED <<rev, now, deadline, lifeVars, model, landmarkSequence, lastDetectionTime,
                   pushCount>>

\* prediction.data() resolved with the classifier's scores
ClassifyReturn(c, scores) ==
    /\ pc[c] = "classify"
    /\ pc' = [pc EXCEPT ![c] = "idle"]
    /\ isProcessing' = FALSE
    /\ Deliver(ResultOf(scores))
    /\ ev' = Ev("classifyReturn", FALSE, "none", FALSE, NoInput, TRUE,
                ResultOf(scores))
    /\ UNCHANGED <<rev, now, deadline, lifeVars, model, landmarkSequence, lastDetectionTime,
                   pushCount>>

\* mutant: the catch block of detectGesture throws the error on, and
\* processFrame lands in its own catch block and its finally block
ClassifyFail_Rethrows(c) ==
    /\ pc[c] = "classify"
    /\ pc' = [pc EXCEPT ![c] = "idle"]
    /\ isProcessing' = FALSE
    /\ processingRef' = FALSE
    /\ NoDelivery
    /\ ev' = Failed(Ev("classifyFail", FALSE, "none", FALSE, NoInput, FALSE,
                       Null))
    /\ UNCHANGED <<rev, now, deadline, lifeVars, model, landmarkSequence, lastDetectionTime,
                   pushCount>>

\* mutant: the catch block of detectGesture leaves isProcessing set
ClassifyFail_KeepsBusy(c) ==
    /\ pc[c] = "classify"
    /\ pc' = [pc EXCEPT ![c] = "idle"]
    /\ UNCHANGED isProcessing
    /\ Deliver(Null)
    /\ ev' = Failed(Ev("classifyFail", FALSE, "none", FALSE, NoInput, TRUE,
                       Null))
    /\ UNCHANGED <<rev, now, deadline, lifeVars, model, landmarkSequence, lastDetectionTime,
                   pushCount>>

\* prediction.data() rejected: the catch block of detectGesture
ClassifyFail(c) ==
    /\ pc[c] = "classify"
    /\ pc' = [pc EXCEPT ![c] = "idle"]
    /\ isProcessing' = FALSE
    /\ Deliver(Null)
    /\ ev' = Failed(Ev("classifyFail", FALSE, "none", FALSE, NoInput, TRUE,
                       Null))
    /\ UNCHANGED <<rev, now, deadline, lifeVars, model, landmarkSequence, lastDetectionTime,
                   pushCount>>

----------------------------------------------------------------------------
(* Teardown: the cleanup of the provider's effect, and Detector.dispose()   *)

\* mutant: dispose() releases the model and leaves the window as it is
DisposeDetector_KeepsWindow ==
    /\ model' = FALSE
    /\ disposed' = disposed + 1
    /\ UNCHANGED <<landmarkSequence, isProcessing, lastDetectionTime>>

\* Detector.dispose(): the model (and, in the second revision, the Hands
\* pipeline and its ready flag) is released if held, the window is emptied
DisposeDetector ==
    /\ model' = FALSE
    /\ landmarkSequence' = <<>>
    /\ disposed' = disposed + 1
    /\ UNCHANGED <<isProcessing, lastDetectionTime>>

\* the provider unmounts: dispose() is called on the Detector held in the ref
Unmount ==
    /\ mounted
    /\ mounted' = FALSE
    /\ IF detectorRef
       THEN DisposeDetector
       ELSE UNCHANGED <<detectorVars, disposed>>
    /\ ev' = Quiet("unmount")
    /\ UNCHANGED <<rev, now, deadline, sessionVars, pc, pushCount>>

\* dispose() called on the constructed Detector by any holder of it
Dispose ==
    /\ disposed < MaxDisposals
    /\ DisposeDetector
    /\ ev' = Quiet("dispose")
    /\ UNCHANGED <<rev, now, deadline, sessionVars, mounted, pc, pushCount>>

----------------------------------------------------------------------------
(* The session from construction *)

Next ==
    \/ Tick
    \/ InitializeDone
    \/ InitializeFail
    \/ \E r \in ProgressSteps : ProgressTick(r)
    \/ StartDetection
    \/ StopDetection
    \/ ClearHistory
    \/ \E x \in FrameInputs : ProcessFrame(x)
    \/ \E c \in Calls, x \in FrameInputs : ExtractReturn(c, x)
    \/ \E c \in Calls, s \in Scores : ClassifyReturn(c, s)
    \/ \E c \in Calls : ClassifyFail(c)
    \/ Unmount

Spec == Init /\ [][Next]_vars

----------------------------------------------------------------------------
(* The session after a warm-up: the model is loaded, detection is on, the   *)
(* landmark window and the history already hold entries. These are states   *)
(* a run from construction reaches after seconds of frames; starting there  *)
(* brings a full window and a full history within a few steps.             *)

\* the window after n appended frames, none evicted yet
WarmWindow(n) == [i \in 1..n |-> i]

\* a history of n predictions with alternating labels, one per ThrottleMs,
\* the last one LastAge before the start of the run
WarmHistory(n, lastAge) ==
    [i \in 1..n |->
        [gesture |-> labelMap[i % 2],
         confidence |-> 90,
         timestamp |-> StartTime - lastAge - (n - i) * ThrottleMs]]

\* age of the last history entry at the start: two ticks short of the gap
WarmAge == DedupGapMs - 2 * TickMs

\* the session after a warm-up that left n frames in the window (none evicted
\* yet) and h predictions in the history
WarmedFor(n, h, ticks) ==
    /\ now = StartTime
    /\ deadline = StartTime + ticks * TickMs
    /\ isDetecting = TRUE
    /\ currentPrediction = NoLabel
    /\ confidence = 0
    /\ predictionHistory = WarmHistory(h, WarmAge)
    /\ modelLoaded = TRUE
    /\ modelLoadingProgress = 100
    /\ detectorRef = TRUE
    /\ processingRef = FALSE
    /\ initState = "done"
    /\ progressInterval = FALSE
    /\ mounted = TRUE
    /\ disposed = 0
    /\ model = TRUE
    /\ isProcessing = FALSE
    /\ landmarkSequence = WarmWindow(n)
    /\ pushCount = n
    /\ lastDetectionTime = StartTime - WarmAge
    /\ pc = [c \in Calls |-> "idle"]
    /\ ev = Quiet("mount")

Warmed(n, h) == WarmedFor(n, h, WarmTicks)

\* the window is one frame short of the first classification; the history is
\* empty or holds one prediction
InitWarm ==
    /\ rev \in Revisions
    /\ \E h \in {0, 1} : Warmed(MinFill - 1, h)

\* the window and the history are one entry short of full, or just full
InitFull ==
    /\ rev \in Revisions
    /\ \E d \in {0, 1} : Warmed(maxSequenceLength - d, MaxHistory - d)

NextWarm ==
    \/ Tick
    \/ StartDetection
    \/ StopDetection
    \/ ClearHistory
    \/ \E x \in FrameInputs : ProcessFrame(x)
    \/ \E c \in Calls, x \in FrameInputs : ExtractReturn(c, x)
    \/ \E c \in Calls, s \in Scores : ClassifyReturn(c, s)
    \/ \E c \in Calls : ClassifyFail(c)

SpecWarm == InitWarm /\ [][NextWarm]_vars

SpecFull == InitFull /\ [][NextWarm]_vars

----------------------------------------------------------------------------
(* The Detector under repeated dispose() calls: from construction (its      *)
(* initialize() still pending) or from a warmed-up session, with dispose()  *)
(* callable at any moment besides everything the session does               *)

InitDispose ==
    /\ rev \in Revisions
    /\ \/ /\ now = StartTime
          /\ deadline = StartTime + WarmTicks * TickMs
          /\ isDetecting = FALSE
          /\ currentPrediction = NoLabel
          /\ confidence = 0
          /\ predictionHistory = <<>>
          /\ modelLoaded = FALSE
          /\ modelLoadingProgress = IF rev = 1 THEN 0 ELSE 50
          /\ detectorRef = FALSE
          /\ processingRef = FALSE
          /\ initState = "loading"
          /\ progressInterval = (rev = 1)
          /\ mounted = TRUE
          /\ disposed = 0
          /\ model = FALSE
          /\ isProcessing = FALSE
          /\ landmarkSequence = <<>>
          /\ lastDetectionTime = 0
          /\ pc = [c \in Calls |-> "idle"]
          /\ pushCount = 0
          /\ ev = Quiet("mount")
       \/ Warmed(MinFill - 1, 0)

NextDispose ==
    \/ NextWarm
    \/ InitializeDone
    \/ InitializeFail
    \/ Dispose

SpecDispose == InitDispose /\ [][NextDispose]_vars

----------------------------------------------------------------------------
(* The warmed-up session under the assumption that every call of the        *)
(* extractor and of the classifier eventually returns or fails: the         *)
(* promises detectGesture awaits are settled, and the event loop then runs *)
(* the continuation                                                         *)

ExtractSettles == \E c \in Calls, x \in FrameInputs : ExtractReturn(c, x)

ClassifySettles ==
    \E c \in Calls : (\E s \in Scores : ClassifyReturn(c, s)) \/ ClassifyFail(c)

\* the window is one frame short of the first classification, the history
\* is empty
InitLive ==
    /\ rev \in Revisions
    /\ WarmedFor(MinFill - 1, 0, LiveTicks)

SpecLive ==
    /\ InitLive
    /\ [][NextWarm]_vars
    /\ WF_vars(ExtractSettles)
    /\ WF_vars(ClassifySettles)

----------------------------------------------------------------------------
(* Properties *)

Last(s) == s[Len(s)]

\* the smaller of two numbers
Min(a, b) == IF a <= b THEN a ELSE b

\* the step was a processFrame call
FrameSubmitted == ev'.op = "processFrame"

\* the step ran processFrame's continuation with a result of the Detector
ResultDelivered == ev'.delivered /\ ev'.result # Null

\* C1: a processFrame call submitted while the active flag is false (before
\* any start, or after stop) leaves the displayed label, the displayed
\* confidence and the history unchanged and does not invoke the Detector.
C1_InactiveFrameIsNoOp ==
    [][(FrameSubmitted /\ ~isDetecting) =>
          /\ ev'.det = "none"
          /\ ~ev'.gate
          /\ UNCHANGED <<currentPrediction, confidence, predictionHistory>>
          /\ UNCHANGED <<detectorVars, pc, pushCount>>]_vars

\* a frame was submitted after stop, with a prediction in the history and an
\* earlier call still suspended in the Detector
C1_Witness ==
    /\ ev.op = "processFrame"
    /\ ~isDetecting
    /\ modelLoaded
    /\ predictionHistory # <<>>
    /\ InFlight # {}

\* C2: at most one extraction/classification is in flight per Detector, in
\* every reachable state; a detectGesture call that arrives while the busy
\* flag is set returns none without invoking the extractor or the classifier
\* and without touching the Detector.
C2_OneInFlight ==
    /\ [](/\ Cardinality(InFlight) <= 1
          /\ isProcessing <=> InFlight # {})
    /\ [][(FrameSubmitted /\ ev'.gate /\ isProcessing) =>
             /\ ev'.det = "busy"
             /\ ~ev'.extractor
             /\ ~ev'.classifier
             /\ ev'.delivered /\ ev'.result = Null
             /\ UNCHANGED <<detectorVars, pc, pushCount>>]_vars

\* a call reached the Detector while an earlier call was suspended in it
C2_Witness ==
    /\ ev.op = "processFrame"
    /\ ev.det = "busy"
    /\ InFlight # {}

\* C3: a processFrame call issued while an earlier processFrame call has not
\* yet completed does not reach the Detector and leaves label, confidence and
\* history unchanged, for any interleaving of start, stop and processFrame.
C3_OverlappingFrameIsNoOp ==
    [][(FrameSubmitted /\ InFlight # {}) =>
          /\ ev'.det = "none"
          /\ ~ev'.gate
          /\ UNCHANGED <<currentPrediction, confidence, predictionHistory>>]_vars

\* the Prediction processFrame builds from the result delivered by the step
NewPrediction ==
    [gesture |-> ev'.result.gesture,
     confidence |-> ev'.result.confidence,
     timestamp |-> now']

\* the step put NewPrediction at the end of the history, after the entries
\* that were there (or the most recent of them)
Appended ==
    /\ predictionHistory' # <<>>
    /\ Last(predictionHistory') = NewPrediction
    /\ LET kept == Len(predictionHistory') - 1
       IN  /\ kept <= Len(predictionHistory)
           /\ SubSeq(predictionHistory', 1, kept) =
                  SliceLast(predictionHistory, kept)

\* the admission rule, for the result the step delivered: the confidence is
\* above the history-admission threshold (0.7; 0.75 in the later revision)
\* and the history is empty, or ends with another label, or ends with an
\* entry at least the re-admission gap (2000 ms; 1500 ms) old
AdmissionDue ==
    /\ ev'.result.confidence > (IF rev = 1 THEN 70 ELSE 75)
    /\ \/ predictionHistory = <<>>
       \/ Last(predictionHistory).gesture # ev'.result.gesture
       \/ now' - Last(predictionHistory).timestamp
              >= (IF rev = 1 THEN 2000 ELSE 1500)

\* C4: when processFrame receives a Detector result, a Prediction is appended
\* to the history if and only if the confidence is strictly above the
\* history-admission threshold (0.7; 0.75 in the later revision) and the
\* history is empty, or its last entry has another label, or the new
\* timestamp is at least the re-admission gap (2000 ms; 1500 ms) after the
\* last entry's; in every other case the history is unchanged.
C4_AdmissionRule ==
    [][ResultDelivered =>
          IF AdmissionDue THEN Appended ELSE UNCHANGED predictionHistory]_vars

\* a result was admitted after an entry of the same label, the gap having
\* passed
C4_Witness ==
    /\ ev.delivered /\ ev.result # Null
    /\ Len(predictionHistory) >= 2
    /\ Last(predictionHistory).timestamp = now
    /\ predictionHistory[Len(predictionHistory) - 1].gesture
           = Last(predictionHistory).gesture

\* C5: the history never holds more than H entries (15; 20 in the later
\* revision), in insertion order, oldest first; an admission that would make
\* it longer drops exactly the oldest entries from the front and leaves the
\* admitted Prediction as the last entry.
C5_HistoryBounded ==
    /\ [](/\ Len(predictionHistory) <= (IF rev = 1 THEN 15 ELSE 20)
          /\ \A i \in 1..(Len(predictionHistory) - 1) :
                predictionHistory[i].timestamp
                    <= predictionHistory[i + 1].timestamp)
    /\ [][(ResultDelivered /\ AdmissionDue) =>
             LET h == IF rev = 1 THEN 15 ELSE 20
                 all == Append(predictionHistory, NewPrediction)
             IN  /\ Last(predictionHistory') = NewPrediction
                 /\ Len(predictionHistory') = Min(Len(all), h)
                 /\ \A i \in 1..Len(predictionHistory') :
                        predictionHistory'[i] =
                            all[Len(all) - Len(predictionHistory') + i]]_vars
    /\ [][predictionHistory' # predictionHistory =>
             \/ ev'.op = "clearHistory"
             \/ ResultDelivered /\ AdmissionDue]_vars

\* the history is full and two of its entries were admitted during the run:
\* at least one admission found it full and dropped the oldest entry
C5_Witness ==
    /\ Len(predictionHistory) = (IF rev = 1 THEN 15 ELSE 20)
    /\ Cardinality({i \in 1..Len(predictionHistory) :
                        predictionHistory[i].timestamp >= StartTime}) >= 2

\* C6: the landmark window never holds more than W = 30 frames; after W+k
\* frames have been appended it holds exactly the W most recently appended
\* frames, oldest first (frames are numbered in the order they are appended).
C6_WindowIsLastW ==
    LET n == Min(pushCount, 30)
    IN  /\ Len(landmarkSequence) <= 30
        /\ landmarkSequence = [i \in 1..n |-> pushCount - n + i]

\* more than W frames have been appended
C6_Witness ==
    /\ pushCount > 30
    /\ Len(landmarkSequence) = 30

\* C7: every input handed to the classifier has exactly W = 30 rows; with
\* n < W frames in the window the first W-n rows are rows of zeros and the last
\* n rows are the frames in window order; with W frames it equals the window.
C7_ClassifierInput ==
    ev.classifier =>
        LET n == Len(landmarkSequence)
        IN  /\ Len(ev.input) = 30
            /\ n <= 30
            /\ \A i \in 1..(30 - n) : ev.input[i] = 0
            /\ \A i \in 1..n : ev.input[30 - n + i] = landmarkSequence[i]
            /\ n = 30 => ev.input = landmarkSequence

\* the classifier was run on a window that is not full
C7_Witness ==
    /\ ev.classifier
    /\ Len(landmarkSequence) = 29

\* the step ran processFrame's continuation without a result to display
NothingToDisplay ==
    /\ ev'.delivered
    /\ \/ ev'.result = Null
       \/ ev'.result.confidence <= (IF rev = 1 THEN 50 ELSE 60)

\* C8: each accepted processFrame call that yields no result (or one at or
\* below the display threshold) lowers the displayed confidence by the decay
\* step (0.05; 0.08 in the later revision) floored at 0, never raises it, and
\* clears the displayed label exactly when the decayed confidence is below the
\* clear threshold (0.3; 0.4), the confidence staying at the decayed value.
C8_Decay ==
    [][NothingToDisplay =>
          LET step == IF rev = 1 THEN 5 ELSE 8
              clear == IF rev = 1 THEN 30 ELSE 40
          IN  /\ confidence' = Max(0, confidence - step)
              /\ confidence' <= confidence
              /\ confidence' >= 0
              /\ confidence' < clear => currentPrediction' = NoLabel
              /\ confidence' >= clear => currentPrediction' = currentPrediction
              /\ UNCHANGED predictionHistory]_vars

\* a decay step has just cleared the label and left a confidence above 0
C8_Witness ==
    /\ ev.delivered
    /\ ev.result = Null
    /\ currentPrediction = NoLabel
    /\ confidence > 0
    /\ isDetecting

\* C9: stop() from any state sets the active flag to false, the displayed
\* label to none and the displayed confidence to 0, and leaves the history,
\* the model-ready flag and the load progress unchanged.
C9_StopEffect ==
    [][ev'.op = "stop" =>
          /\ isDetecting' = FALSE
          /\ currentPrediction' = NoLabel
          /\ confidence' = 0
          /\ UNCHANGED <<predictionHistory, modelLoaded,
                         modelLoadingProgress>>]_vars

\* stop() was called with a prediction in the history
C9_Witness ==
    /\ ev.op = "stop"
    /\ predictionHistory # <<>>

\* C10: clearHistory() from any state makes the history empty and leaves the
\* active flag, the displayed label and the displayed confidence unchanged.
C10_ClearHistoryEffect ==
    [][ev'.op = "clearHistory" =>
          /\ predictionHistory' = <<>>
          /\ UNCHANGED <<isDetecting, currentPrediction, confidence>>]_vars

\* clearHistory() was called while a prediction was displayed
C10_Witness ==
    /\ ev.op = "clearHistory"
    /\ currentPrediction # NoLabel
    /\ confidence > 0
    /\ predictionHistory = <<>>

\* C11: start() sets the active flag to true only when the model is loaded
\* and a Detector is held; before initialization has completed, or after it
\* has failed, it changes no session state. So the active flag is never true
\* while the model-ready flag is false.
C11_StartOnlyWhenLoaded ==
    /\ [](isDetecting => (modelLoaded /\ detectorRef))
    /\ [][ev'.op = "start" =>
            IF modelLoaded /\ detectorRef
            THEN isDetecting'
            ELSE UNCHANGED sessionVars]_vars

\* start() was called after the initialization had failed, and the session is
\* not active
C11_Witness ==
    /\ ev.op = "start"
    /\ initState = "failed"
    /\ ~modelLoaded
    /\ ~isDetecting

\* C12: when the extractor or the classifier fails during a detectGesture
\* call, the call returns no result to processFrame (no exception reaches
\* it) and the Detector's busy flag is left cleared, so a later call is not
\* rejected as busy.
C12_FailureReturnsNone ==
    [][ev'.failed =>
          /\ ev'.delivered
          /\ ev'.result = Null
          /\ ~isProcessing'
          /\ InFlight' = {}]_vars

\* the classifier failed in a call that had been suspended at it
C12_Witness ==
    /\ ev.failed
    /\ ev.op = "classifyFail"
    /\ ~isProcessing

\* C13 as stated: an error of the Detector during processFrame does not
\* change the displayed label, the displayed confidence, the history or the
\* active flag; it only clears the session-level busy flag.
C13_ErrorChangesNothing ==
    [][ev'.failed =>
          /\ processingRef' = FALSE
          /\ UNCHANGED <<currentPrediction, confidence, predictionHistory,
                         isDetecting>>]_vars

\* C13, amended: an error of the Detector during processFrame is handled as
\* a frame without a result: the history and the active flag are unchanged,
\* the session-level busy flag is cleared, the displayed confidence decays by
\* one step (not below 0) and the displayed label becomes none when the
\* decayed confidence is below the clear threshold.
C13_ErrorIsNoResultFrame ==
    [][ev'.failed =>
          /\ processingRef' = FALSE
          /\ UNCHANGED <<predictionHistory, isDetecting>>
          /\ confidence' = DecayedConfidence(confidence)
          /\ currentPrediction' =
               IF DecayedConfidence(confidence) < ClearThreshold
               THEN NoLabel
               ELSE currentPrediction]_vars

\* the Detector failed while a prediction was displayed: its confidence has
\* decayed and the label is still shown
C13_Witness ==
    /\ ev.failed
    /\ currentPrediction # NoLabel
    /\ confidence > 0
    /\ confidence < DisplayThreshold + 1

\* C14: the session-state updates caused by frames (set label/confidence,
\* history append, decay step) are applied in the order in which the frames
\* were submitted. A call suspended inside the Detector applies its update
\* when it returns, so the update of a newly submitted frame must never be
\* applied while an earlier call is still suspended.
C14_SubmissionOrder ==
    [][(FrameSubmitted /\ ev'.delivered) => InFlight = {}]_vars

\* C15: a constructed Detector is disposed exactly once, at teardown, also
\* when teardown happens while initialize() is pending or after it failed:
\* once the provider is unmounted, dispose() has been called once and the
\* Detector holds no model.
C15_DisposedOnceAtTeardown ==
    ~mounted => (disposed = 1 /\ ~model)

\* C16: dispose() is idempotent. After any dispose() call the model handle is
\* released and the window is empty; a dispose() call on a Detector that
\* holds no model and has an empty window (after an earlier dispose(), or
\* before initialize() completed) changes no Detector state.
C16_DisposeIdempotent ==
    [][ev'.op = "dispose" =>
          /\ ~model'
          /\ landmarkSequence' = <<>>
          /\ (~model /\ landmarkSequence = <<>>) => UNCHANGED detectorVars
          /\ ev.op = "dispose" => UNCHANGED detectorVars]_vars

\* dispose() was called a second time on a Detector that had been initialized
C16_Witness ==
    /\ ev.op = "dispose"
    /\ disposed >= 2
    /\ initState = "done"

\* C17: detectGesture returns none without running the extractor or the
\* classifier when less than the throttle interval (300 ms; 200 ms in the
\* later revision) has passed since the last call that got past the guards;
\* only such a call stamps the time, so calls that run the extractor are at
\* least the interval apart and a skipped call (busy, not ready, throttled)
\* does not restart the interval.
C17_Throttle ==
    [][LET tmin == IF rev = 1 THEN 300 ELSE 200
       IN  /\ (FrameSubmitted /\ ev'.gate) =>
                /\ (~isProcessing /\ model /\ now - lastDetectionTime < tmin)
                      => ev'.det = "throttled"
                /\ ev'.det \in {"busy", "notReady", "throttled"} =>
                      /\ ~ev'.extractor
                      /\ ~ev'.classifier
                      /\ ev'.delivered
                      /\ ev'.result = Null
                      /\ UNCHANGED <<detectorVars, pc>>
                /\ ev'.det = "ran" =>
                      /\ now - lastDetectionTime >= tmin
                      /\ lastDetectionTime' = now
           /\ ev'.extractor => (ev'.det = "ran" /\ lastDetectionTime' = now')
           /\ lastDetectionTime' # lastDetectionTime => ev'.det = "ran"]_vars

\* a call was skipped by the throttle one tick after a call that ran
C17_Witness ==
    /\ ev.op = "processFrame"
    /\ ev.det = "throttled"
    /\ now - lastDetectionTime = TickMs

\* C18: as long as fewer frames than the minimum fill (10; 5 in the later
\* revision) have been appended to the window, the classifier has not been
\* invoked, every detectGesture call has returned none, the displayed
\* confidence is 0, no label is displayed and the history is empty.
C18_NothingBelowMinFill ==
    pushCount < (IF rev = 1 THEN 10 ELSE 5) =>
        /\ ~ev.classifier
        /\ \A c \in Calls : pc[c] # "classify"
        /\ ev.result = Null
        /\ confidence = 0
        /\ currentPrediction = NoLabel
        /\ predictionHistory = <<>>

\* a call has appended the fourth frame and returned none
C18_Witness ==
    /\ pushCount = 4
    /\ ev.delivered
    /\ ev.op \in {"processFrame", "extractReturn"}
    /\ Len(landmarkSequence) = 4

\* C19: once initialize() has failed, the model-ready flag is false, no
\* Detector is installed, the session is not active, and no frame is passed
\* to a Detector.
C19_FailedInitialization ==
    initState = "failed" =>
        /\ ~modelLoaded
        /\ ~detectorRef
        /\ ~isDetecting
        /\ InFlight = {}
        /\ ev.det = "none"
        /\ ~ev.gate

\* a frame was submitted after initialize() had failed
C19_Witness ==
    /\ initState = "failed"
    /\ ev.op = "processFrame"

\* C20: the displayed confidence is within [0, 1] (0..100 hundredths) in
\* every reachable state, the classifier's scores being within [0, 1].
C20_ConfidenceInRange ==
    /\ confidence >= 0
    /\ confidence <= 100

\* a decay step from a confidence below the step has stopped at 0
C20_Witness ==
    /\ ev.delivered
    /\ ev.result = Null
    /\ ev.op = "processFrame"
    /\ confidence = 0
    /\ isDetecting
    /\ predictionHistory # <<>>

\* C21: for results that carry the label of the last history entry with a
\* confidence above the history-admission threshold, no entry is recorded
\* while the result is less than the re-admission gap (2000 ms; 1500 ms in
\* the later revision) after that entry, and an entry is recorded at the first
\* result that is at least the gap after it; so any two adjacent history
\* entries with the same label have timestamps at least the gap apart.
C21_OneEntryPerGap ==
    /\ [](\A i \in 1..(Len(predictionHistory) - 1) :
             predictionHistory[i].gesture = predictionHistory[i + 1].gesture
                => predictionHistory[i + 1].timestamp
                      - predictionHistory[i].timestamp
                          >= (IF rev = 1 THEN 2000 ELSE 1500))
    /\ [][(/\ ResultDelivered
           /\ ev'.result.confidence > (IF rev = 1 THEN 70 ELSE 75)
           /\ predictionHistory # <<>>
           /\ Last(predictionHistory).gesture = ev'.result.gesture) =>
             IF now' - Last(predictionHistory).timestamp
                   < (IF rev = 1 THEN 2000 ELSE 1500)
             THEN UNCHANGED predictionHistory
             ELSE /\ Last(predictionHistory') = NewPrediction
                  /\ predictionHistory' # predictionHistory]_vars

\* two adjacent entries of the same label lie exactly the gap apart, and a
\* further result of that label has just been left out
C21_Witness ==
    /\ Len(predictionHistory) >= 2
    /\ predictionHistory[Len(predictionHistory) - 1].gesture
           = Last(predictionHistory).gesture
    /\ Last(predictionHistory).timestamp
           - predictionHistory[Len(predictionHistory) - 1].timestamp
               = DedupGapMs
    /\ ev.delivered
    /\ ev.result # Null
    /\ ev.result.gesture = Last(predictionHistory).gesture
    /\ ev.result.confidence > HistoryThreshold
    /\ now > Last(predictionHistory).timestamp

\* C22: every detectGesture call that sets the Detector's busy flag
\* eventually clears it, and every processFrame call that sets the session's
\* busy flag eventually clears it (the extractor and the classifier being
\* assumed to return or fail); and a frame submitted to an active session
\* when no call is pending and the throttle interval has passed is processed.
C22_BusyFlagsClear ==
    /\ isProcessing ~> ~isProcessing
    /\ processingRef ~> ~processingRef
    /\ [][(/\ FrameSubmitted
           /\ InFlight = {}
           /\ isDetecting /\ detectorRef /\ modelLoaded /\ model
           /\ now - lastDetectionTime >= (IF rev = 1 THEN 300 ELSE 200)) =>
             (ev'.gate /\ ev'.det = "ran")]_vars

\* a frame was processed after an earlier call had been suspended at the
\* classifier and had completed with a result that is now in the history
C22_Witness ==
    /\ ev.op = "processFrame"
    /\ ev.det = "ran"
    /\ predictionHistory # <<>>
    /\ now - Last(predictionHistory).timestamp >= ThrottleMs

\* C23: while the session is stopped (after stop() and until the next
\* start()), the displayed label stays none, the displayed confidence stays
\* 0 and the history gains no entry, also when a processFrame call that was
\* suspended at the moment of stop() completes in that period.
C23_QuietWhileStopped ==
    [][(~isDetecting /\ ~isDetecting') =>
          /\ currentPrediction' = NoLabel
          /\ confidence' = 0
          /\ Len(predictionHistory') <= Len(predictionHistory)]_vars

\* C24: in every reachable state a label is displayed if and only if the
\* displayed confidence is at or above the clear threshold (0.3; 0.4 in the
\* later revision).
C24_LabelIffConfident ==
    (currentPrediction # NoLabel) <=>
        (confidence >= (IF rev = 1 THEN 30 ELSE 40))

\* a label is displayed whose confidence has decayed to less than one step
\* above the clear threshold
C24_Witness ==
    /\ currentPrediction # NoLabel
    /\ confidence < ClearThreshold + DecayStep
    /\ ev.delivered
    /\ ev.result = Null

\* C25: a processFrame call that passes the session's guard and whose
\* detectGesture call is skipped by the Detector (throttled, or busy) is a
\* frame without a result: the displayed confidence drops by one decay step
\* (not below 0), the label is cleared when the decayed confidence is below
\* the clear threshold, the history and the landmark window are unchanged.
C25_SkippedCallDecays ==
    [][(FrameSubmitted /\ ev'.gate /\ ev'.det \in {"throttled", "busy"}) =>
          LET step == IF rev = 1 THEN 5 ELSE 8
              clear == IF rev = 1 THEN 30 ELSE 40
          IN  /\ confidence' = Max(0, confidence - step)
              /\ currentPrediction' =
                   IF confidence' < clear THEN NoLabel ELSE currentPrediction
              /\ UNCHANGED <<predictionHistory, landmarkSequence,
                             pushCount>>]_vars

\* a throttled call has lowered the confidence of a displayed label
C25_Witness ==
    /\ ev.op = "processFrame"
    /\ ev.det = "throttled"
    /\ currentPrediction # NoLabel
    /\ confidence > 0

\* C26: once initialize() has failed, the load progress of the mounted
\* session is 0 and stays 0, and the model-ready flag is false.
C26_ProgressStaysZero ==
    (mounted /\ initState = "failed") =>
        (modelLoadingProgress = 0 /\ ~modelLoaded)

====
